---- MODULE Spec2Model ----
(***************************************************************************)
(* Credit approval system (loans/services.py, views.py, serializers.py,    *)
(* tasks.py, models.py).                                                   *)
(*                                                                         *)
(* Money is counted in hundredths of a currency unit (the DecimalFields    *)
(* have decimal_places=2).  An installment is a rational [n |-> , d |-> ]  *)
(* of hundredths, because the zero-rate branch returns principal/tenure    *)
(* unrounded.  Interest rates are whole percents.  A date is a month       *)
(* number; its year is date \div 12.                                       *)
(*                                                                         *)
(* The code computes in binary floating point (float(Decimal), round(x,2), *)
(* int(ratio * 35)); the model computes the same quantities exactly.  On   *)
(* the amounts, rates, tenures and rows used below the two give the same   *)
(* installments, scores and gate outcomes.                                 *)
(***************************************************************************)
EXTENDS Integers, Sequences, FiniteSets, TLC

\* ------------------------------------------------------------------ bounds
\* number of requests served, each in its own execution context
NumWorkers == 2
\* largest loan history drawn for the engine specification
MaxHist == 3
\* rows the store may hold in the system specification
MaxLoans == 2
\* how many months the clock advances in the system specification
MaxTicks == 1
\* customers the system specification registers
MaxCustomers == 1

Workers == 1..NumWorkers

\* the reference date of the engine specification: month 6 of year 2
Today0 == 2 * 12 + 6

YearOf(d) == d \div 12

\* ----------------------------------------------------------------- helpers
RECURSIVE Sum(_, _)
Sum(f, S) == IF S = {} THEN 0
             ELSE LET x == CHOOSE y \in S : TRUE IN f[x] + Sum(f, S \ {x})

RECURSIVE GCD(_, _)
GCD(a, b) == IF b = 0 THEN a ELSE GCD(b, a % b)

RECURSIVE Pow(_, _)
Pow(b, n) == IF n = 0 THEN 1 ELSE b * Pow(b, n - 1)

\* Python round(x, 2) / Decimal quantize on an exact quotient n/d, d > 0
RoundHalfEven(n, d) ==
    LET q == n \div d
        r == n % d
    IN  IF 2 * r < d THEN q
        ELSE IF 2 * r > d THEN q + 1
        ELSE IF q % 2 = 0 THEN q ELSE q + 1

\* rational comparison and equality, denominators positive
RatGT(x, y) == x.n * y.d > y.n * x.d
RatEQ(x, y) == x.n * y.d = y.n * x.d
RatAdd(x, y) == [n |-> x.n * y.d + y.n * x.d, d |-> x.d * y.d]
Rat(k) == [n |-> k, d |-> 1]

\* ------------------------------------------------- calculate_monthly_installment
\* the exception of `principal / tenure_months` and of `... / (x - 1)`
ZeroDivisionError == [error |-> "ZeroDivisionError"]

Abs(x) == IF x < 0 THEN 0 - x ELSE x

\* a zero-rate branch that rounds to 2 places as the other branch does
InstallmentZeroRateRounded(principal, annual_rate, tenure_months) ==
    IF tenure_months = 0 THEN ZeroDivisionError
    ELSE LET s  == IF tenure_months < 0 THEN 0 - 1 ELSE 1
             k  == Abs(tenure_months)
         IN  IF annual_rate = 0
             THEN Rat(RoundHalfEven(s * principal, k))
             ELSE LET g  == GCD(annual_rate, 1200)
                      a  == annual_rate \div g
                      b  == 1200 \div g
                      up == Pow(a + b, k)
                      lo == Pow(b, k)
                  IN  Rat(RoundHalfEven(s * principal * a * (IF s = 1 THEN up ELSE lo),
                                        b * (up - lo)))

\* No argument is checked.  With tenure_months = 0 both branches divide by
\* zero; a negative tenure_months gives (1 + monthly_rate)^N < 1 and a
\* quotient of the opposite sign.  The result is kept with a positive
\* denominator.
calculate_monthly_installment(principal, annual_rate, tenure_months) ==
    IF tenure_months = 0 THEN ZeroDivisionError
    ELSE LET s  == IF tenure_months < 0 THEN 0 - 1 ELSE 1
             k  == Abs(tenure_months)
         IN  IF annual_rate = 0
             THEN [n |-> s * principal, d |-> k]
             ELSE LET g  == GCD(annual_rate, 1200)
                      a  == annual_rate \div g          \* monthly_rate = a / b
                      b  == 1200 \div g
                      up == Pow(a + b, k)                \* (1 + monthly_rate)^k * b^k
                      lo == Pow(b, k)
                  IN  Rat(RoundHalfEven(s * principal * a * (IF s = 1 THEN up ELSE lo),
                                        b * (up - lo)))

\* ------------------------------------------------------ calculate_credit_score
\* Loan.objects.filter(customer=customer): ids of the customer's rows
LoansOf(table, customer_id) ==
    {i \in DOMAIN table : table[i].customer_id = customer_id}

\* [loan for loan in all_loans if loan.end_date >= today]
ActiveOf(table, customer_id, now) ==
    {i \in LoansOf(table, customer_id) : table[i].end_date >= now}

\* The whole products 35 * e / t at which the double (e / t) * 35 lies just
\* below the integer, for ratios e / t up to 10: 47 / 35 * 35 is
\* 46.99999999999999.  None has e <= t.
TruncatedProducts == {47, 94, 153, 188, 223, 306, 341}

\* int(on_time_ratio * 35) with on_time_ratio = e / t in floating point
IntOfRatioTimes35(e, t) ==
    IF \E k \in TruncatedProducts : 35 * e = k * t
    THEN (e * 35) \div t - 1
    ELSE (e * 35) \div t

\* Component i: past loans paid on time
OnTimePoints(table, all_loans) ==
    LET total_emis == Sum([i \in all_loans |-> table[i].emis_paid_on_time], all_loans)
        total_expected_emis == Sum([i \in all_loans |-> table[i].tenure], all_loans)
    IN  IF total_expected_emis > 0
        THEN IntOfRatioTimes35(total_emis, total_expected_emis)
        ELSE 25

\* a loan count component that starts at three loans
LoanCountPointsFromThree(num_loans) ==
    IF num_loans >= 5 THEN 20
    ELSE IF num_loans >= 3 THEN 15
    ELSE 0

\* Component ii: number of loans taken
LoanCountPoints(num_loans) ==
    IF num_loans >= 5 THEN 20
    ELSE IF num_loans >= 3 THEN 15
    ELSE IF num_loans >= 1 THEN 10
    ELSE 0

\* Component iii: loan activity in the current year
CurrentYearPoints(table, all_loans, now) ==
    LET current_year_loans ==
            {i \in all_loans : YearOf(table[i].start_date) = YearOf(now)}
        k == Cardinality(current_year_loans)
    IN  IF k = 0 THEN 20
        ELSE IF k <= 2 THEN 15
        ELSE IF k <= 4 THEN 10
        ELSE 5

\* Component iv: loan approved volume
VolumePoints(table, all_loans, approved_limit) ==
    LET total_loan_volume == Sum([i \in all_loans |-> table[i].loan_amount], all_loans)
    IN  IF approved_limit > 0
        THEN IF 10 * total_loan_volume <= 3 * approved_limit THEN 25
             ELSE IF 10 * total_loan_volume <= 5 * approved_limit THEN 20
             ELSE IF 10 * total_loan_volume <= 7 * approved_limit THEN 15
             ELSE IF total_loan_volume <= approved_limit THEN 10
             ELSE 5
        ELSE 15

Min(a, b) == IF a < b THEN a ELSE b
Max(a, b) == IF a > b THEN a ELSE b

\* a clamp that forgets the ceiling
ClampScoreNoCeiling(score) == Max(0, score)

\* max(0, min(100, score))
ClampScore(score) == Max(0, Min(100, score))

\* a veto sum that also counts closed loans
CurrentLoanSumAllLoans(table, customer_id, now) ==
    LET all_loans == LoansOf(table, customer_id)
    IN  Sum([i \in all_loans |-> table[i].loan_amount], all_loans)

\* sum(float(loan.loan_amount) for loan in active_loans)
CurrentLoanSum(table, customer_id, now) ==
    LET active_loans == ActiveOf(table, customer_id, now)
    IN  Sum([i \in active_loans |-> table[i].loan_amount], active_loans)

\* the score of a customer who has loans: rule v, then the four components
ScoreOfHistory(customer, customer_id, table, now) ==
    LET all_loans == LoansOf(table, customer_id)
    IN  IF CurrentLoanSum(table, customer_id, now) > customer.approved_limit THEN 0
        ELSE ClampScore(OnTimePoints(table, all_loans)
                        + LoanCountPoints(Cardinality(all_loans))
                        + CurrentYearPoints(table, all_loans, now)
                        + VolumePoints(table, all_loans, customer.approved_limit))

\* a score that gives a customer without history nothing
CreditScoreDefaultZero(customer, customer_id, table, now) ==
    IF LoansOf(table, customer_id) = {} THEN 0
    ELSE ScoreOfHistory(customer, customer_id, table, now)

\* a score without the no-history default
CreditScoreNoDefault(customer, customer_id, table, now) ==
    ScoreOfHistory(customer, customer_id, table, now)

calculate_credit_score(customer, customer_id, table, now) ==
    IF LoansOf(table, customer_id) = {} THEN 50
    ELSE ScoreOfHistory(customer, customer_id, table, now)

\* ------------------------------------------------------ check_loan_eligibility
MsgEmi == "Total EMIs would exceed 50% of monthly salary"
MsgApproved == "Loan approved"
MsgCorrected == "Loan approved with corrected interest rate"
MsgLowScore == "Loan not approved due to low credit score"

\* sum(float(loan.monthly_repayment) for loan in active_loans)
CurrentTotalEmi(table, customer_id, now) ==
    LET active_loans == ActiveOf(table, customer_id, now)
    IN  Sum([i \in active_loans |-> table[i].monthly_repayment], active_loans)

\* a gate that also rejects a total equal to half the salary
ExceedsHalfSalaryNotStrict(current_total_emi, new_emi, monthly_salary) ==
    2 * (current_total_emi * new_emi.d + new_emi.n) >= monthly_salary * new_emi.d

\* total_emi_after_loan > 0.5 * monthly_salary
ExceedsHalfSalary(current_total_emi, new_emi, monthly_salary) ==
    2 * (current_total_emi * new_emi.d + new_emi.n) > monthly_salary * new_emi.d

Decision(approval, interest_rate, corrected, tenure, emi, message) ==
    [approval |-> approval, interest_rate |-> interest_rate,
     corrected_interest_rate |-> corrected, tenure |-> tenure,
     monthly_installment |-> emi, message |-> message]

\* a correction that keeps the installment of the requested rate
BandDecisionNoRecompute(floor, loan_amount, interest_rate, tenure, new_emi) ==
    IF interest_rate > floor
    THEN Decision(TRUE, interest_rate, interest_rate, tenure, new_emi, MsgApproved)
    ELSE Decision(TRUE, interest_rate, floor, tenure, new_emi, MsgCorrected)

\* a correcting band: keep the requested rate when it is above the floor,
\* else force the floor and recompute the installment
BandDecision(floor, loan_amount, interest_rate, tenure, new_emi) ==
    IF interest_rate > floor
    THEN Decision(TRUE, interest_rate, interest_rate, tenure, new_emi, MsgApproved)
    ELSE Decision(TRUE, interest_rate, floor, tenure,
                  calculate_monthly_installment(loan_amount, floor, tenure),
                  MsgCorrected)

\* bands whose first test also takes score 50
ScoreBandsFiftyApproves(credit_score, loan_amount, interest_rate, tenure, new_emi) ==
    IF credit_score >= 50
    THEN Decision(TRUE, interest_rate, interest_rate, tenure, new_emi, MsgApproved)
    ELSE IF 30 < credit_score /\ credit_score <= 50
    THEN BandDecision(12, loan_amount, interest_rate, tenure, new_emi)
    ELSE IF 10 < credit_score /\ credit_score <= 30
    THEN BandDecision(16, loan_amount, interest_rate, tenure, new_emi)
    ELSE Decision(FALSE, interest_rate, interest_rate, tenure, new_emi, MsgLowScore)

\* bands whose 16% band has lost its lower limit
ScoreBandsNoLowReject(credit_score, loan_amount, interest_rate, tenure, new_emi) ==
    IF credit_score > 50
    THEN Decision(TRUE, interest_rate, interest_rate, tenure, new_emi, MsgApproved)
    ELSE IF 30 < credit_score /\ credit_score <= 50
    THEN BandDecision(12, loan_amount, interest_rate, tenure, new_emi)
    ELSE IF credit_score <= 30
    THEN BandDecision(16, loan_amount, interest_rate, tenure, new_emi)
    ELSE Decision(FALSE, interest_rate, interest_rate, tenure, new_emi, MsgLowScore)

\* "Apply credit score rules": the if / elif chain on credit_score
ScoreBands(credit_score, loan_amount, interest_rate, tenure, new_emi) ==
    IF credit_score > 50
    THEN Decision(TRUE, interest_rate, interest_rate, tenure, new_emi, MsgApproved)
    ELSE IF 30 < credit_score /\ credit_score <= 50
    THEN BandDecision(12, loan_amount, interest_rate, tenure, new_emi)
    ELSE IF 10 < credit_score /\ credit_score <= 30
    THEN BandDecision(16, loan_amount, interest_rate, tenure, new_emi)
    ELSE Decision(FALSE, interest_rate, interest_rate, tenure, new_emi, MsgLowScore)

\* an eligibility check that looks at the score before the affordability gate
CheckEligibilityScoreFirst(customer, customer_id, table, now, loan_amount, interest_rate, tenure) ==
    LET credit_score == calculate_credit_score(customer, customer_id, table, now)
        current_total_emi == CurrentTotalEmi(table, customer_id, now)
        new_emi == calculate_monthly_installment(loan_amount, interest_rate, tenure)
        banded == ScoreBands(credit_score, loan_amount, interest_rate, tenure, new_emi)
    IN  IF ~banded.approval THEN banded
        ELSE IF ExceedsHalfSalary(current_total_emi, new_emi, customer.monthly_salary)
        THEN Decision(FALSE, interest_rate, interest_rate, tenure, new_emi, MsgEmi)
        ELSE banded

check_loan_eligibility(customer, customer_id, table, now, loan_amount, interest_rate, tenure) ==
    LET credit_score == calculate_credit_score(customer, customer_id, table, now)
        current_total_emi == CurrentTotalEmi(table, customer_id, now)
        new_emi == calculate_monthly_installment(loan_amount, interest_rate, tenure)
    IN  IF ExceedsHalfSalary(current_total_emi, new_emi, customer.monthly_salary)
        THEN Decision(FALSE, interest_rate, interest_rate, tenure, new_emi, MsgEmi)
        ELSE ScoreBands(credit_score, loan_amount, interest_rate, tenure, new_emi)

\* ----------------------------------------------------------------- the state
VARIABLES
    customers,     \* table customers: customer_id -> row
    loans,         \* table loans: loan_id -> row
    loan_seq,      \* next value of the loans.loan_id sequence (AutoField)
    customer_seq,  \* next value of the customers.customer_id sequence
    today,         \* timezone.now().date(), a month number
    pc,            \* per worker (one request each): where its handler stands
    request,       \* per worker: the validated request data
    customer,      \* per worker: the Customer instance loaded by the view
    credit_score,  \* per worker: the score computed for the request
    eligibility,   \* per worker: the dict returned by check_loan_eligibility
    response       \* per worker: the HTTP response of the last request

vars == <<customers, loans, loan_seq, customer_seq, today,
          pc, request, customer, credit_score, eligibility, response>>

store == <<customers, loans, loan_seq, customer_seq>>

\* 'loan_id': None
Null == 0
NoValue == [none |-> TRUE]

Customer(monthly_salary, approved_limit, current_debt) ==
    [monthly_salary |-> monthly_salary, approved_limit |-> approved_limit,
     current_debt |-> current_debt]

Loan(customer_id, loan_amount, tenure, interest_rate, monthly_repayment, emis_paid_on_time, start_date, end_date) ==
    [customer_id |-> customer_id, loan_amount |-> loan_amount, tenure |-> tenure,
     interest_rate |-> interest_rate, monthly_repayment |-> monthly_repayment,
     emis_paid_on_time |-> emis_paid_on_time,
     start_date |-> start_date, end_date |-> end_date]

\* ------------------------------------------------------------ request inputs
Ops == {"check", "create"}
Amounts == {1000, 2000}
Rates == {0, 12, 16, 20}
Tenures == {1, 2, 3}

\* ------------------------------------------------------------- the handlers
\* the answer of the view's `except Exception` branch
InvalidDataAsServerError(field, message) ==
    [status |-> 500, error |-> "Failed to check eligibility",
     details |-> <<field, message>>]

\* the answer to a request the serializer rejects: serializer.errors names
\* the field and carries the message of its ValidationError
InvalidData(field, message) ==
    [status |-> 400, error |-> "Invalid data", details |-> <<field, message>>]

\* views.check_eligibility / views.create_loan_view up to the service call:
\* the serializer validates the request (validate_customer_id) and the view
\* loads the Customer instance.
Begin(w, op, customer_id, loan_amount, interest_rate, tenure) ==
    /\ pc[w] = "idle"
    /\ request[w] = NoValue
    /\ op = "create" =>
         Cardinality(DOMAIN loans)
           + Cardinality({v \in Workers : pc[v] # "idle" /\ request[v].op = "create"})
           < MaxLoans
    /\ request' = [request EXCEPT ![w] =
          [op |-> op, customer_id |-> customer_id, loan_amount |-> loan_amount,
           interest_rate |-> interest_rate, tenure |-> tenure]]
    /\ credit_score' = [credit_score EXCEPT ![w] = NoValue]
    /\ eligibility' = [eligibility EXCEPT ![w] = NoValue]
    /\ IF customer_id \in DOMAIN customers
       THEN /\ customer' = [customer EXCEPT ![w] = customers[customer_id]]
            /\ response' = [response EXCEPT ![w] = NoValue]
            /\ pc' = [pc EXCEPT ![w] = "loaded"]
       ELSE /\ customer' = [customer EXCEPT ![w] = NoValue]
            /\ response' = [response EXCEPT ![w] =
                              InvalidData("customer_id", "Customer not found.")]
            /\ pc' = pc
    /\ UNCHANGED <<store, today>>

\* a rejection return that drops the decision's installment
RejectedLoanNoInstallment(e) ==
    [status |-> 200, loan_id |-> Null, loan_approved |-> FALSE,
     message |-> e.message, monthly_installment |-> Rat(0)]

\* the body of create_loan's rejection return
RejectedLoan(e) ==
    [status |-> 200, loan_id |-> Null, loan_approved |-> FALSE,
     message |-> e.message, monthly_installment |-> e.monthly_installment]

\* a check-eligibility view that goes on to originate an approved loan
EligibilityCheckOriginates(w) ==
    /\ pc[w] = "loaded"
    /\ LET r == request[w]
           e == check_loan_eligibility(customer[w], r.customer_id, loans, today,
                                       r.loan_amount, r.interest_rate, r.tenure)
       IN  /\ credit_score' = [credit_score EXCEPT ![w] =
                 calculate_credit_score(customer[w], r.customer_id, loans, today)]
           /\ eligibility' = [eligibility EXCEPT ![w] = e]
           /\ IF ~e.approval
              THEN /\ response' = [response EXCEPT ![w] = RejectedLoan(e)]
                   /\ pc' = [pc EXCEPT ![w] = "idle"]
              ELSE /\ response' = response
                   /\ pc' = [pc EXCEPT ![w] = "approved"]
    /\ UNCHANGED <<store, today, request, customer>>

\* check_loan_eligibility, then the return of check_eligibility or the
\* rejection return of create_loan
Eligibility(w) ==
    /\ pc[w] = "loaded"
    /\ LET r == request[w]
           e == check_loan_eligibility(customer[w], r.customer_id, loans, today,
                                       r.loan_amount, r.interest_rate, r.tenure)
       IN  /\ credit_score' = [credit_score EXCEPT ![w] =
                 calculate_credit_score(customer[w], r.customer_id, loans, today)]
           /\ eligibility' = [eligibility EXCEPT ![w] = e]
           /\ IF r.op = "check"
              THEN /\ response' = [response EXCEPT ![w] = [status |-> 200, body |-> e]]
                   /\ pc' = [pc EXCEPT ![w] = "idle"]
              ELSE IF ~e.approval
              THEN /\ response' = [response EXCEPT ![w] = RejectedLoan(e)]
                   /\ pc' = [pc EXCEPT ![w] = "idle"]
              ELSE /\ response' = response
                   /\ pc' = [pc EXCEPT ![w] = "approved"]
    /\ UNCHANGED <<store, today, request, customer>>

\* the row written by Loan.objects.create in create_loan
NewLoan(r, e, now) ==
    Loan(r.customer_id, r.loan_amount, r.tenure, e.corrected_interest_rate,
         RoundHalfEven(e.monthly_installment.n, e.monthly_installment.d),
         0, now, now + r.tenure)

\* Loan.objects.create(...): the id comes from the sequence; an id already
\* taken raises IntegrityError, which the view turns into a 500
InsertLoan(w) ==
    /\ pc[w] = "approved"
    /\ loan_seq' = loan_seq + 1
    /\ IF loan_seq \in DOMAIN loans
       THEN /\ loans' = loans
            /\ response' = [response EXCEPT ![w] =
                              [status |-> 500, error |-> "Failed to create loan"]]
            /\ pc' = [pc EXCEPT ![w] = "idle"]
       ELSE /\ loans' = [i \in DOMAIN loans \cup {loan_seq} |->
                           IF i = loan_seq THEN NewLoan(request[w], eligibility[w], today)
                           ELSE loans[i]]
            /\ response' = [response EXCEPT ![w] = [loan_id |-> loan_seq]]
            /\ pc' = [pc EXCEPT ![w] = "created"]
    /\ UNCHANGED <<customers, customer_seq, today, request, customer,
                   credit_score, eligibility>>

\* customer.current_debt += loan_amount; customer.save(); return {...}
SaveCustomer(w) ==
    /\ pc[w] = "created"
    /\ LET r == request[w]
           saved == [customer[w] EXCEPT !.current_debt = @ + r.loan_amount]
       IN  /\ customer' = [customer EXCEPT ![w] = saved]
           /\ customers' = [customers EXCEPT ![r.customer_id] = saved]
           /\ response' = [response EXCEPT ![w] =
                 [status |-> 200, loan_id |-> response[w].loan_id,
                  loan_approved |-> TRUE, message |-> eligibility[w].message,
                  monthly_installment |-> eligibility[w].monthly_installment]]
    /\ pc' = [pc EXCEPT ![w] = "idle"]
    /\ UNCHANGED <<loans, loan_seq, customer_seq, today, request,
                   credit_score, eligibility>>

\* Loan.objects.create(...) raises because the storage write fails: no row
\* is written and the view's `except Exception` answers 500
InsertLoanFails(w) ==
    /\ pc[w] = "approved"
    /\ response' = [response EXCEPT ![w] =
                      [status |-> 500, error |-> "Failed to create loan"]]
    /\ pc' = [pc EXCEPT ![w] = "idle"]
    /\ UNCHANGED <<store, today, request, customer, credit_score, eligibility>>

\* customer.save() raises because the storage write fails, after
\* Loan.objects.create has written its row; create_loan opens no
\* transaction, so the row stays and the view answers 500
SaveCustomerFails(w) ==
    /\ pc[w] = "created"
    /\ customer' = [customer EXCEPT ![w].current_debt = @ + request[w].loan_amount]
    /\ response' = [response EXCEPT ![w] =
                      [status |-> 500, error |-> "Failed to create loan"]]
    /\ pc' = [pc EXCEPT ![w] = "idle"]
    /\ UNCHANGED <<store, today, request, credit_score, eligibility>>

\* Loan.repayments_left: tenure less Loan.emis_paid, the whole months from
\* start_date to now, at most tenure
RepaymentsLeft(loan, now) ==
    LET emis_paid == IF now < loan.start_date THEN 0
                     ELSE Min(now - loan.start_date, loan.tenure)
    IN  Max(0, loan.tenure - emis_paid)

\* Meta.ordering = ['loan_id']: the ids of S in ascending order
RECURSIVE Ascending(_)
Ascending(S) ==
    IF S = {} THEN << >>
    ELSE LET m == CHOOSE x \in S : \A y \in S : x <= y
         IN  <<m>> \o Ascending(S \ {m})

\* views.view_loan: get_object_or_404 raises Http404, which is not
\* Loan.DoesNotExist, so the view's `except Exception` answers 500
ViewLoan(w, loan_id) ==
    /\ pc[w] = "idle"
    /\ request[w] = NoValue
    /\ request' = [request EXCEPT ![w] = [op |-> "view_loan", loan_id |-> loan_id]]
    /\ response' = [response EXCEPT ![w] =
          IF loan_id \in DOMAIN loans
          THEN [status |-> 200,
                body |-> [loan_id |-> loan_id,
                          customer |-> loans[loan_id].customer_id,
                          loan_amount |-> loans[loan_id].loan_amount,
                          interest_rate |-> loans[loan_id].interest_rate,
                          monthly_installment |-> loans[loan_id].monthly_repayment,
                          tenure |-> loans[loan_id].tenure]]
          ELSE [status |-> 500, error |-> "Failed to retrieve loan"]]
    /\ UNCHANGED <<store, today, pc, customer, credit_score, eligibility>>

\* views.view_loans_by_customer: as above for an unknown customer;
\* otherwise one item per loan of the customer, in loan_id order
ViewLoans(w, customer_id) ==
    /\ pc[w] = "idle"
    /\ request[w] = NoValue
    /\ request' = [request EXCEPT ![w] =
                     [op |-> "view_loans", customer_id |-> customer_id]]
    /\ response' = [response EXCEPT ![w] =
          IF customer_id \in DOMAIN customers
          THEN LET ids == Ascending(LoansOf(loans, customer_id))
               IN  [status |-> 200,
                    body |-> [k \in DOMAIN ids |->
                                [loan_id |-> ids[k],
                                 loan_amount |-> loans[ids[k]].loan_amount,
                                 interest_rate |-> loans[ids[k]].interest_rate,
                                 monthly_installment |-> loans[ids[k]].monthly_repayment,
                                 repayments_left |-> RepaymentsLeft(loans[ids[k]], today)]]]
          ELSE [status |-> 500, error |-> "Failed to retrieve loans"]]
    /\ UNCHANGED <<store, today, pc, customer, credit_score, eligibility>>

\* ------------------------------------------------- the engine specification
\* One request is served against a store drawn from rows that bulk
\* ingestion (tasks.ingest_customer_data / ingest_loan_data, update_or_create
\* with the file's values) or earlier originations can have left behind.
CustomerRows == <<
    Customer(1000, 5000, 0),
    Customer(4060, 2000, 0),
    Customer(100000, 100000, 3000),
    Customer(100000, 0, 0),
    Customer(4060, 100000, 0) >>

\* dates are relative to the reference date; year 2 is months 24..35
LoanRows == <<
    \* closed last year, fully paid on time
    Loan(1, 500, 2, 12, 254, 2, Today0 - 20, Today0 - 18),
    \* active, started this year
    Loan(1, 1000, 6, 12, 173, 1, Today0 - 2, Today0 + 4),
    \* active, large principal, started today
    Loan(1, 3000, 2, 0, 1530, 0, Today0, Today0 + 2),
    \* closed, more installments recorded on time than its tenure
    Loan(1, 500, 1, 12, 505, 3, Today0 - 18, Today0 - 17),
    \* closed, tenure 0
    Loan(1, 200, 0, 0, 0, 0, Today0 - 25, Today0 - 25),
    \* ends today: still active
    Loan(1, 1000, 2, 12, 508, 2, Today0 - 2, Today0),
    \* closed this year, large principal, nothing paid on time
    Loan(1, 3000, 1, 16, 3040, 0, Today0 - 2, Today0 - 1) >>

EngineWorkers == {1}
CustomerIds == {1, 2}

NonDecreasing(f) == \A i \in DOMAIN f : \A j \in DOMAIN f : i <= j => f[i] <= f[j]

Idle == [w \in Workers |-> "idle"]
Blank == [w \in Workers |-> NoValue]

InitEngine ==
    /\ \E c \in DOMAIN CustomerRows : customers = (1 :> CustomerRows[c])
    /\ \E n \in 0..MaxHist :
         \E f \in [1..n -> DOMAIN LoanRows] :
            /\ NonDecreasing(f)
            /\ loans = [i \in 1..n |-> LoanRows[f[i]]]
            /\ loan_seq = n + 1
    /\ customer_seq = 2
    /\ today = Today0
    /\ pc = Idle
    /\ request = Blank
    /\ customer = Blank
    /\ credit_score = Blank
    /\ eligibility = Blank
    /\ response = Blank

EngineBegin ==
    \E w \in EngineWorkers, op \in Ops, c \in CustomerIds,
       a \in Amounts, r \in Rates, t \in Tenures :
          Begin(w, op, c, a, r, t)
EngineEligibility == \E w \in EngineWorkers : Eligibility(w)
EngineInsertLoan == \E w \in EngineWorkers : InsertLoan(w)
EngineSaveCustomer == \E w \in EngineWorkers : SaveCustomer(w)

NextEngine ==
    \/ EngineBegin
    \/ EngineEligibility
    \/ EngineInsertLoan
    \/ EngineSaveCustomer

SpecEngine == InitEngine /\ [][NextEngine]_vars

\* -------------------------------------------------- the score specification
\* One eligibility check against longer histories, so that five and more
\* loans, and five and more loans of the current year, are scored.  The
\* added row records 47 installments on time for a tenure of 35.
MaxScoreHist == 5

ScoreRows == LoanRows \o << Loan(1, 500, 35, 12, 15, 47, Today0 - 30, Today0 - 5) >>

InitScore ==
    /\ \E c \in DOMAIN CustomerRows : customers = (1 :> CustomerRows[c])
    /\ \E n \in 0..MaxScoreHist :
         \E f \in [1..n -> DOMAIN ScoreRows] :
            /\ NonDecreasing(f)
            /\ loans = [i \in 1..n |-> ScoreRows[f[i]]]
            /\ loan_seq = n + 1
    /\ customer_seq = 2
    /\ today = Today0
    /\ pc = Idle
    /\ request = Blank
    /\ customer = Blank
    /\ credit_score = Blank
    /\ eligibility = Blank
    /\ response = Blank

ScoreBegin == \E w \in EngineWorkers : Begin(w, "check", 1, 1000, 12, 1)
ScoreEligibility == \E w \in EngineWorkers : Eligibility(w)

NextScore ==
    \/ ScoreBegin
    \/ ScoreEligibility

SpecScore == InitScore /\ [][NextScore]_vars

\* -------------------------------------------- the installment specification
\* calculate_monthly_installment called on its own, as the unit tests call
\* it, with arguments that no serializer has screened.  The last call is
\* the one of test_emi_calculation_zero_interest.
EmiPrincipals == {0 - 1000, 0, 1, 4, 1000, 2000}
EmiTenures == {0 - 1, 0, 1, 2, 3}
EmiCalls == (EmiPrincipals \X Rates \X EmiTenures) \cup {<<12000000, 0, 12>>}

InitEmi ==
    /\ customers = << >>
    /\ loans = << >>
    /\ loan_seq = 1
    /\ customer_seq = 1
    /\ today = Today0
    /\ pc = [w \in Workers |-> IF w \in EngineWorkers THEN "called" ELSE "idle"]
    /\ \E c \in EmiCalls :
          request = [w \in Workers |->
                       IF w \in EngineWorkers
                       THEN [op |-> "emi", principal |-> c[1], annual_rate |-> c[2],
                             tenure_months |-> c[3]]
                       ELSE NoValue]
    /\ customer = Blank
    /\ credit_score = Blank
    /\ eligibility = Blank
    /\ response = Blank

\* the call returns its value or raises
ReturnInstallment(w) ==
    /\ pc[w] = "called"
    /\ response' = [response EXCEPT ![w] =
          calculate_monthly_installment(request[w].principal, request[w].annual_rate,
                                        request[w].tenure_months)]
    /\ pc' = [pc EXCEPT ![w] = "idle"]
    /\ UNCHANGED <<store, today, request, customer, credit_score, eligibility>>

NextEmi == \E w \in EngineWorkers : ReturnInstallment(w)

SpecEmi == InitEmi /\ [][NextEmi]_vars

\* ------------------------------------------------- the system specification
\* The API as deployed: registrations, eligibility checks and originations
\* served by concurrent workers on one database, while time passes.
Incomes == {30, 50}
SysAmounts == {1000}
SysRates == {0}
SysTenures == {1}
\* loan ids asked for: those the store can hold
LoanIds == 1..MaxLoans

\* a limit truncated to the 100000 below
ApprovedLimitRoundedDown(monthly_salary) ==
    ((36 * monthly_salary) \div 100000) * 100000 * 100

\* approved_limit = round(raw_limit / 100000) * 100000, in hundredths
ApprovedLimit(monthly_salary) ==
    RoundHalfEven(36 * monthly_salary, 100000) * 100000 * 100

\* views.register_customer: CustomerRegistrationSerializer.create; an id
\* already taken raises IntegrityError, which the view turns into a 500
Register(monthly_income) ==
    /\ customer_seq <= MaxCustomers
    /\ customer_seq' = customer_seq + 1
    /\ IF customer_seq \in DOMAIN customers
       THEN customers' = customers
       ELSE customers' = [c \in DOMAIN customers \cup {customer_seq} |->
                            IF c = customer_seq
                            THEN Customer(monthly_income * 100,
                                          ApprovedLimit(monthly_income), 0)
                            ELSE customers[c]]
    /\ UNCHANGED <<loans, loan_seq, today, pc, request, customer,
                   credit_score, eligibility, response>>

\* timezone.now().date() moves on
Tick ==
    /\ today < Today0 + MaxTicks
    /\ today' = today + 1
    /\ UNCHANGED <<store, pc, request, customer, credit_score, eligibility, response>>

Init ==
    /\ customers = << >>
    /\ loans = << >>
    /\ loan_seq = 1
    /\ customer_seq = 1
    /\ today = Today0
    /\ pc = Idle
    /\ request = Blank
    /\ customer = Blank
    /\ credit_score = Blank
    /\ eligibility = Blank
    /\ response = Blank

RegisterCustomer == \E m \in Incomes : Register(m)
BeginRequest ==
    \E w \in Workers, op \in Ops, c \in CustomerIds,
       a \in SysAmounts, r \in SysRates, t \in SysTenures :
          Begin(w, op, c, a, r, t)
CheckEligibility == \E w \in Workers : Eligibility(w)
CreateLoanRow == \E w \in Workers : InsertLoan(w)
UpdateDebt == \E w \in Workers : SaveCustomer(w)
FailCreateLoanRow == \E w \in Workers : InsertLoanFails(w)
FailUpdateDebt == \E w \in Workers : SaveCustomerFails(w)
ViewLoanRequest == \E w \in Workers, i \in LoanIds : ViewLoan(w, i)
ViewLoansRequest == \E w \in Workers, c \in CustomerIds : ViewLoans(w, c)

Next ==
    \/ RegisterCustomer
    \/ Tick
    \/ BeginRequest
    \/ CheckEligibility
    \/ CreateLoanRow
    \/ UpdateDebt
    \/ FailCreateLoanRow
    \/ FailUpdateDebt
    \/ ViewLoanRequest
    \/ ViewLoansRequest

Spec == Init /\ [][Next]_vars

\* ------------------------------------------ the registration specification
\* POST /register alone, over monthly incomes from 0 to 60000 in steps of
\* 500: they include 50000 (an exact multiple), 12500 (36 * 12500 = 450000
\* lies halfway) and 2000 (72000 rounds up).
RegIncomes == {500 * k : k \in 0..120}

NextRegister == \E m \in RegIncomes : Register(m)

SpecRegister == Init /\ [][NextRegister]_vars


\* ------------------------------------------------------------------ claims
\* worker w takes the step that computes the score and the decision
Decides(w) == pc[w] = "loaded" /\ pc'[w] # "loaded"

\* worker w holds a decision and has not written to the store since
Settled(w) ==
    /\ eligibility[w] # NoValue
    /\ \/ pc[w] = "approved"
       \/ pc[w] = "idle" /\ (request[w].op = "check" \/ ~eligibility[w].approval)

\* what the request of worker w meets in the store
HistoryIds(w) == {i \in DOMAIN loans : loans[i].customer_id = request[w].customer_id}
ActiveIds(w) == {i \in HistoryIds(w) : loans[i].end_date >= today}
ClosedIds(w) == {i \in HistoryIds(w) : loans[i].end_date < today}
ActivePrincipal(w) == Sum([i \in ActiveIds(w) |-> loans[i].loan_amount], ActiveIds(w))
ActiveInstallments(w) == Sum([i \in ActiveIds(w) |-> loans[i].monthly_repayment], ActiveIds(w))
RequestedEmi(w) ==
    calculate_monthly_installment(request[w].loan_amount, request[w].interest_rate,
                                  request[w].tenure)
\* active installments + requested EMI, and half the salary, as rationals
TotalAfterLoan(w) == RatAdd(Rat(ActiveInstallments(w)), RequestedEmi(w))
HalfSalary(w) == [n |-> customer[w].monthly_salary, d |-> 2]
GateExceeded(w) == RatGT(TotalAfterLoan(w), HalfSalary(w))
GateEqual(w) == RatEQ(TotalAfterLoan(w), HalfSalary(w))

\* C1: every score calculate_credit_score returns is an integer in 0..100,
\* also for histories with more on-time installments than tenure and for
\* customers whose approved_limit is 0.
C1_ScoreInRange ==
    \A w \in Workers : eligibility[w] # NoValue => credit_score[w] \in 0..100

\* a customer with approved_limit 0 and an overpaid closed loan was scored
C1_Witness ==
    \E w \in Workers :
        /\ Settled(w)
        /\ customer[w].approved_limit = 0
        /\ \E i \in HistoryIds(w) : loans[i].emis_paid_on_time > loans[i].tenure
        /\ credit_score[w] = 100

\* C2: a customer without any loan gets the score 50, whatever the salary,
\* the approved limit and the current debt.  (Loans are never deleted, so a
\* customer without loans now had none when the score was computed.)
C2_NoHistoryScoreFifty ==
    \A w \in Workers :
        (eligibility[w] # NoValue /\ HistoryIds(w) = {}) => credit_score[w] = 50

\* a customer in debt but without loans was scored
C2_Witness ==
    \E w \in Workers :
        /\ Settled(w)
        /\ HistoryIds(w) = {}
        /\ customer[w].current_debt > 0
        /\ credit_score[w] = 50

\* C3: when the principal of the active loans exceeds approved_limit the
\* score is 0; closed loans do not count: a history whose active principal
\* is within the limit is not vetoed even if its total principal is above it.
C3_OverexposureVeto ==
    [][\A w \in Workers :
         Decides(w) =>
           /\ ActivePrincipal(w) > customer[w].approved_limit => credit_score'[w] = 0
           /\ (HistoryIds(w) # {} /\ ActivePrincipal(w) <= customer[w].approved_limit)
                => credit_score'[w] > 0]_vars

\* the veto struck a customer who also has closed loans paid on time
C3_Witness ==
    \E w \in Workers :
        /\ Settled(w)
        /\ ActivePrincipal(w) > customer[w].approved_limit
        /\ \E i \in ClosedIds(w) : loans[i].emis_paid_on_time >= loans[i].tenure
        /\ credit_score[w] = 0

\* C4: when active installments plus the EMI at the requested rate exceed
\* half the salary, the decision is the affordability rejection with the
\* requested rate and the uncorrected EMI, whatever the score.
C4_AffordabilityGateFirst ==
    [][\A w \in Workers :
         (Decides(w) /\ GateExceeded(w)) =>
            eligibility'[w] =
               Decision(FALSE, request[w].interest_rate, request[w].interest_rate,
                        request[w].tenure, RequestedEmi(w), MsgEmi)]_vars

\* the gate rejected a request of a customer whose score is 0
C4_Witness ==
    \E w \in Workers :
        /\ Settled(w)
        /\ GateExceeded(w)
        /\ credit_score[w] = 0
        /\ eligibility[w].message = MsgEmi

C6_AboveFiftyUnchanged ==
    [][\A w \in Workers :
         (Decides(w) /\ ~GateExceeded(w)) =>
            /\ credit_score'[w] > 50 =>
                 eligibility'[w] =
                    Decision(TRUE, request[w].interest_rate, request[w].interest_rate,
                             request[w].tenure, RequestedEmi(w), MsgApproved)
            /\ (credit_score'[w] = 50 /\ request[w].interest_rate < 12) =>
                 eligibility'[w].corrected_interest_rate # request[w].interest_rate]_vars

\* a score above 50 approved a rate below 12 unchanged
C6_Witness ==
    \E w \in Workers :
        /\ Settled(w)
        /\ ~GateExceeded(w)
        /\ credit_score[w] > 50
        /\ request[w].interest_rate < 12
        /\ eligibility[w].approval
        /\ eligibility[w].corrected_interest_rate = request[w].interest_rate

RateFloor(score) == IF score > 30 THEN 12 ELSE 16

C8_LowScoreRejects ==
    [][\A w \in Workers :
         (Decides(w) /\ ~GateExceeded(w) /\ credit_score'[w] <= 10) =>
            eligibility'[w] =
               Decision(FALSE, request[w].interest_rate, request[w].interest_rate,
                        request[w].tenure, RequestedEmi(w), MsgLowScore)]_vars

\* an affordable request was rejected for a low score
C8_Witness ==
    \E w \in Workers :
        /\ Settled(w)
        /\ ~GateExceeded(w)
        /\ credit_score[w] <= 10
        /\ eligibility[w].message = MsgLowScore

C10_RejectionLeavesStore ==
    [][\A w \in Workers :
         (Decides(w) /\ request[w].op = "create" /\ ~eligibility'[w].approval) =>
            /\ response'[w] =
                 [status |-> 200, loan_id |-> Null, loan_approved |-> FALSE,
                  message |-> eligibility'[w].message,
                  monthly_installment |-> eligibility'[w].monthly_installment]
            /\ pc'[w] = "idle"
            /\ customers' = customers
            /\ loans' = loans]_vars

\* an origination was rejected for a customer who already has a loan
C10_Witness ==
    \E w \in Workers :
        /\ pc[w] = "idle"
        /\ request[w] # NoValue
        /\ request[w].op = "create"
        /\ response[w].status = 200
        /\ ~response[w].loan_approved
        /\ response[w].loan_id = Null
        /\ response[w].message = MsgLowScore
        /\ HistoryIds(w) # {}

\* worker w takes the step of Loan.objects.create
CreatesLoan(w) == pc[w] = "approved" /\ pc'[w] # "approved"

\* worker w takes the step of customer.save() and of the approval return
SavesDebt(w) == pc[w] = "created" /\ pc'[w] # "created"

\* C11 as claimed: an approved origination persists exactly one new loan of
\* the customer, starting today, ending tenure months later, at the
\* corrected rate, with the decision's installment and no installment paid;
\* it raises the stored current_debt by the requested amount and returns
\* the id of that loan with loan_approved true.
C11_ApprovedPersistsLoan ==
    [][\A w \in Workers :
         LET r == request[w]
             e == eligibility[w]
         IN  /\ CreatesLoan(w) =>
                  \E id \in DOMAIN loans' \ DOMAIN loans :
                     /\ DOMAIN loans' = DOMAIN loans \cup {id}
                     /\ \A i \in DOMAIN loans : loans'[i] = loans[i]
                     /\ loans'[id].customer_id = r.customer_id
                     /\ loans'[id].loan_amount = r.loan_amount
                     /\ loans'[id].tenure = r.tenure
                     /\ loans'[id].start_date = today
                     /\ loans'[id].end_date = today + r.tenure
                     /\ loans'[id].interest_rate = e.corrected_interest_rate
                     /\ loans'[id].emis_paid_on_time = 0
                     /\ RatEQ(Rat(loans'[id].monthly_repayment), e.monthly_installment)
                     /\ response'[w].loan_id = id
             /\ SavesDebt(w) =>
                  /\ loans' = loans
                  /\ customers'[r.customer_id].current_debt =
                       customers[r.customer_id].current_debt + r.loan_amount
                  /\ response'[w].loan_approved
                  /\ response'[w].loan_id = response[w].loan_id]_vars

\* worker w's origination ends in the error response
OriginationFails(w) ==
    /\ pc[w] \in {"approved", "created"}
    /\ pc'[w] = "idle"
    /\ response'[w].status = 500

\* C12 as claimed: origination is atomic; when one of its two writes fails
\* neither takes effect: no loan row written by the failed origination
\* remains and no customer row has changed.
C12_FailedOriginationLeavesNothing ==
    [][\A w \in Workers :
         OriginationFails(w) =>
            /\ customers' = customers
            /\ pc[w] = "created" => response[w].loan_id \notin DOMAIN loans']_vars

\* C13 as claimed: originations for one customer are serialized, so the
\* affordability gate an origination has passed still holds of the store
\* when it writes its loan: the installments of the customer's active loans,
\* those written by other originations since included, plus the installment
\* at the requested rate do not exceed half the salary.
C13_GateHoldsAtInsert ==
    [][\A w \in Workers : CreatesLoan(w) => ~GateExceeded(w)]_vars

\* worker w's direct call of calculate_monthly_installment has ended
Returned(w) == pc[w] = "idle" /\ request[w] # NoValue /\ request[w].op = "emi"

\* C14: at annual rate 0 calculate_monthly_installment returns exactly
\* principal / tenure_months, with no compounding and no rounding: the
\* returned value times the tenure is the principal.
C14_ZeroRateExact ==
    \A w \in Workers :
        (Returned(w) /\ request[w].annual_rate = 0 /\ request[w].tenure_months # 0) =>
            response[w].n * request[w].tenure_months = request[w].principal * response[w].d

\* 120000 at 0% over 12 months returned 10000
C14_Witness ==
    \E w \in Workers :
        /\ Returned(w)
        /\ request[w].principal = 12000000
        /\ request[w].annual_rate = 0
        /\ request[w].tenure_months = 12
        /\ RatEQ(response[w], Rat(1000000))

\* C15 as claimed: for principal > 0, rate > 0 and tenure > 0 the rounded
\* installment times the tenure is at least the principal.
C15_TotalCoversPrincipal ==
    \A w \in Workers :
        (/\ Returned(w)
         /\ request[w].principal > 0
         /\ request[w].annual_rate > 0
         /\ request[w].tenure_months > 0) =>
            response[w].n * request[w].tenure_months >= request[w].principal * response[w].d

\* C16 as claimed: a call with principal <= 0 or tenure_months <= 0 fails
\* and returns no installment (whatever the name of the error raised).
C16_InvalidArgumentsFail ==
    \A w \in Workers :
        (Returned(w) /\ (request[w].principal <= 0 \/ request[w].tenure_months <= 0)) =>
            "error" \in DOMAIN response[w]

\* C17: a customer created by registration has an approved_limit that is a
\* multiple of 100000 and within 50000 of 36 times the monthly income, and
\* current_debt 0 (amounts in hundredths).
C17_RegisteredLimit ==
    \A c \in DOMAIN customers :
        /\ customers[c].approved_limit % (100000 * 100) = 0
        /\ Abs(customers[c].approved_limit - 36 * customers[c].monthly_salary) <= 50000 * 100
        /\ customers[c].current_debt = 0

\* monthly income 50000 was registered with limit 1800000
C17_Witness ==
    \E c \in DOMAIN customers :
        /\ customers[c].monthly_salary = 50000 * 100
        /\ customers[c].approved_limit = 1800000 * 100
        /\ customers[c].current_debt = 0

\* worker w's request is answered at validation: its customer_id is unknown
UnknownCustomer(w) ==
    /\ request[w] = NoValue
    /\ request'[w] # NoValue
    /\ request'[w].op \in Ops
    /\ request'[w].customer_id \notin DOMAIN customers

\* C18: check eligibility for a customer_id that identifies no customer
\* fails with the client error that reports the customer as not found,
\* computes no score and no decision, and changes no state.
C18_UnknownCustomerNotFound ==
    [][\A w \in Workers :
         (UnknownCustomer(w) /\ request'[w].op = "check") =>
            /\ response'[w].status = 400
            /\ response'[w].details = <<"customer_id", "Customer not found.">>
            /\ credit_score'[w] = NoValue
            /\ eligibility'[w] = NoValue
            /\ pc'[w] = "idle"
            /\ store' = store]_vars

\* a check for an unknown customer was refused while another customer exists
C18_Witness ==
    \E w \in Workers :
        /\ pc[w] = "idle"
        /\ request[w] # NoValue
        /\ request[w].op = "check"
        /\ request[w].customer_id \notin DOMAIN customers
        /\ DOMAIN customers # {}
        /\ response[w].status = 400
        /\ eligibility[w] = NoValue

\* worker w's view request is served in this step
Views(w, op) == request[w] = NoValue /\ request'[w] # NoValue /\ request'[w].op = op

\* C19 as claimed: view loan for a loan_id that identifies no loan, and view
\* loans for a customer_id that identifies no customer, answer 404; for an
\* existing customer view loans answers with exactly that customer's loans.
C19_ViewsNotFound ==
    [][\A w \in Workers :
         /\ (Views(w, "view_loan") /\ request'[w].loan_id \notin DOMAIN loans) =>
               response'[w].status = 404
         /\ (Views(w, "view_loans") /\ request'[w].customer_id \notin DOMAIN customers) =>
               response'[w].status = 404
         /\ (Views(w, "view_loans") /\ request'[w].customer_id \in DOMAIN customers) =>
               /\ response'[w].status = 200
               /\ {response'[w].body[k].loan_id : k \in DOMAIN response'[w].body}
                    = LoansOf(loans, request'[w].customer_id)
               /\ Len(response'[w].body)
                    = Cardinality(LoansOf(loans, request'[w].customer_id))]_vars

\* worker w, serving a check-eligibility request, takes a step
CheckStep(w) ==
    /\ request'[w] # NoValue
    /\ request'[w].op = "check"
    /\ \/ request'[w] # request[w]
       \/ pc'[w] # pc[w]
       \/ response'[w] # response[w]

\* C21: a check-eligibility call, whether it approves or rejects, creates no
\* loan, changes no loan and leaves every customer row, current_debt
\* included, as it was; the id sequences do not move either.
C21_CheckIsReadOnly ==
    [][\A w \in Workers : CheckStep(w) => store' = store]_vars

\* a check was approved and answered for a customer who still has no loan
\* and no debt
C21_Witness ==
    \E w \in Workers :
        /\ pc[w] = "idle"
        /\ request[w] # NoValue
        /\ request[w].op = "check"
        /\ response[w].status = 200
        /\ response[w].body.approval
        /\ LoansOf(loans, request[w].customer_id) = {}
        /\ customers[request[w].customer_id].current_debt = 0

\* the four components of worker w's score, on the store as it stands
OnTime(w) == OnTimePoints(loans, HistoryIds(w))
LoanCount(w) == LoanCountPoints(Cardinality(HistoryIds(w)))
CurrentYear(w) == CurrentYearPoints(loans, HistoryIds(w), today)
Volume(w) == VolumePoints(loans, HistoryIds(w), customer[w].approved_limit)
UnclampedSum(w) == OnTime(w) + LoanCount(w) + CurrentYear(w) + Volume(w)

\* worker w decides on a non-empty history that does not trigger the veto
ScoresHistory(w) ==
    /\ Decides(w)
    /\ HistoryIds(w) # {}
    /\ ActivePrincipal(w) <= customer[w].approved_limit

\* C22 as claimed: for a non-empty history that is not vetoed the on-time
\* component is at most 35, the loan count component at most 20, the
\* current-year component at most 20, the volume component at most 25,
\* their sum at most 100, and the clamp returns the sum unchanged.
C22_ComponentsWithinCaps ==
    [][\A w \in Workers :
         ScoresHistory(w) =>
            /\ OnTime(w) <= 35
            /\ LoanCount(w) <= 20
            /\ CurrentYear(w) <= 20
            /\ Volume(w) <= 25
            /\ UnclampedSum(w) <= 100
            /\ credit_score'[w] = UnclampedSum(w)]_vars

\* the components as the claim words them, for worker w's history
ClaimedOnTime(w) ==
    LET e == Sum([i \in HistoryIds(w) |-> loans[i].emis_paid_on_time], HistoryIds(w))
        t == Sum([i \in HistoryIds(w) |-> loans[i].tenure], HistoryIds(w))
    IN  IF t = 0 THEN 25 ELSE (35 * e) \div t
ClaimedLoanCount(w) ==
    LET n == Cardinality(HistoryIds(w))
    IN  IF n >= 5 THEN 20 ELSE IF n >= 3 THEN 15 ELSE 10
ClaimedCurrentYear(w) ==
    LET k == Cardinality({i \in HistoryIds(w) :
                             loans[i].start_date \in (12 * YearOf(today))..(12 * YearOf(today) + 11)})
    IN  IF k = 0 THEN 20 ELSE IF k <= 2 THEN 15 ELSE IF k <= 4 THEN 10 ELSE 5
ClaimedVolume(w) ==
    LET v == Sum([i \in HistoryIds(w) |-> loans[i].loan_amount], HistoryIds(w))
        l == customer[w].approved_limit
    IN  IF l = 0 THEN 15
        ELSE IF 10 * v <= 3 * l THEN 25
        ELSE IF 10 * v <= 5 * l THEN 20
        ELSE IF 10 * v <= 7 * l THEN 15
        ELSE IF v <= l THEN 10
        ELSE 5

\* C23 as claimed: for a non-empty history that is not vetoed the score is
\* the sum, clamped to 0..100, of floor(35 * on-time installments / tenures)
\* (25 when the tenures sum to 0), 20/15/10 by number of loans, 20/15/10/5
\* by loans started in the current year, and 25/20/15/10/5 by the ratio of
\* all loan amounts to approved_limit (15 when the limit is 0).
C23_ScoreFormula ==
    [][\A w \in Workers :
         ScoresHistory(w) =>
            credit_score'[w] =
               Max(0, Min(100, ClaimedOnTime(w) + ClaimedLoanCount(w)
                               + ClaimedCurrentYear(w) + ClaimedVolume(w)))]_vars

\* C27: for a non-empty history that is not vetoed the score is at least
\* 30, and a decision rejects for low credit score only when the veto has
\* set the score to 0.
C27_ScoreAtLeastThirty ==
    [][\A w \in Workers :
         /\ ScoresHistory(w) => credit_score'[w] >= 30
         /\ (Decides(w) /\ eligibility'[w].message = MsgLowScore) =>
               /\ credit_score'[w] = 0
               /\ ActivePrincipal(w) > customer[w].approved_limit]_vars

\* a history of five loans, all of the current year and none paid on time,
\* scored exactly 30
C27_Witness ==
    \E w \in Workers :
        /\ Settled(w)
        /\ Cardinality(HistoryIds(w)) >= 5
        /\ ActivePrincipal(w) <= customer[w].approved_limit
        /\ credit_score[w] = 30

\* C26 as claimed: for every approved decision the installments of the
\* customer's active loans plus the returned installment, computed at the
\* corrected rate, do not exceed half the monthly salary.
C26_ApprovedWithinHalfSalary ==
    [][\A w \in Workers :
         (Decides(w) /\ eligibility'[w].approval) =>
            ~RatGT(RatAdd(Rat(ActiveInstallments(w)), eligibility'[w].monthly_installment),
                   HalfSalary(w))]_vars

\* C28 as claimed: no debt increment is lost or applied twice under any
\* interleaving of originations for one customer: the save that ends an
\* approved origination leaves the stored current_debt at its stored value
\* before the save plus the loan_amount of that origination, whatever other
\* originations saved since this one loaded the customer.
C28_NoLostDebtUpdate ==
    [][\A w \in Workers :
         (SavesDebt(w) /\ response'[w].status = 200) =>
            customers'[request[w].customer_id].current_debt
               = customers[request[w].customer_id].current_debt
                   + request[w].loan_amount]_vars

\* ------------------------------------------------ the debt specification
\* Registration and requests of both kinds for customer 1 with two different
\* amounts, interleaved over all workers: what the stored customer row goes
\* through between registration and the saves of concurrent originations.
DebtAmounts == {0 - 1000, 0, 1000, 2000}
DebtTenures == {0, 1}

\* CheckEligibilityRequestSerializer / CreateLoanRequestSerializer:
\* loan_amount = FloatField(min_value=0), interest_rate =
\* FloatField(min_value=0), tenure = IntegerField(min_value=1)
ValidLoanRequest(loan_amount, interest_rate, tenure) ==
    loan_amount >= 0 /\ interest_rate >= 0 /\ tenure >= 1

\* if not serializer.is_valid(): return Response({...}, status=400)
InvalidRequest(w, op, customer_id, loan_amount, interest_rate, tenure) ==
    /\ pc[w] = "idle"
    /\ request[w] = NoValue
    /\ request' = [request EXCEPT ![w] =
          [op |-> op, customer_id |-> customer_id, loan_amount |-> loan_amount,
           interest_rate |-> interest_rate, tenure |-> tenure]]
    /\ response' = [response EXCEPT ![w] =
          IF loan_amount < 0
          THEN InvalidData("loan_amount", "Ensure this value is greater than or equal to 0.")
          ELSE IF interest_rate < 0
          THEN InvalidData("interest_rate", "Ensure this value is greater than or equal to 0.")
          ELSE InvalidData("tenure", "Ensure this value is greater than or equal to 1.")]
    /\ UNCHANGED <<store, today, pc, customer, credit_score, eligibility>>

DebtBegin ==
    \E w \in Workers, op \in Ops, a \in DebtAmounts, r \in SysRates, t \in DebtTenures :
        IF ValidLoanRequest(a, r, t)
        THEN Begin(w, op, 1, a, r, t)
        ELSE InvalidRequest(w, op, 1, a, r, t)

NextDebt ==
    \/ RegisterCustomer
    \/ DebtBegin
    \/ CheckEligibility
    \/ CreateLoanRow
    \/ UpdateDebt

SpecDebt == Init /\ [][NextDebt]_vars

\* C24 as claimed: in every step a customer's current_debt does not decrease,
\* it changes only in the save of an approved origination, and
\* monthly_salary and approved_limit stay as registration stored them.
C24_DebtOnlyGrows ==
    [][\A c \in DOMAIN customers :
         /\ customers'[c].current_debt >= customers[c].current_debt
         /\ customers'[c].current_debt # customers[c].current_debt =>
               \E w \in Workers :
                  SavesDebt(w) /\ request[w].customer_id = c /\ response'[w].status = 200
         /\ customers'[c].monthly_salary = customers[c].monthly_salary
         /\ customers'[c].approved_limit = customers[c].approved_limit]_vars

\* ------------------------------------------- the ingestion specification
\* The background tasks of tasks.py beside the API.  A worker slot is a
\* Celery worker process while it runs a task: request[w] holds the task and
\* the rows pandas read from its file, response[w] the counters of the
\* result so far.  Rows are well formed: ids are positive integers and the
\* amounts carry two decimals, so int() and Decimal(str()) keep their values.
CustomerFileRow(customer_id) ==
    [customer_id |-> customer_id, customer |-> Customer(5000, 100000, 0)]

LoanFileRow(loan_id, customer_id) ==
    [loan_id |-> loan_id,
     loan |-> Loan(customer_id, 1000, 12, 12, 89, 0, Today0 - 1, Today0 + 11)]

CustomerFiles ==
    {<< CustomerFileRow(1) >>, << CustomerFileRow(2) >>,
     << CustomerFileRow(1), CustomerFileRow(2) >>,
     << CustomerFileRow(2), CustomerFileRow(1) >>}

LoanFiles ==
    {<< LoanFileRow(i, c) >> : i \in {1, 2}, c \in {1, 2}}
       \cup {<< LoanFileRow(1, c), LoanFileRow(2, d) >> : c \in {1, 2}, d \in {1, 2}}

\* created_count = 0 ... skipped_count = 0
NoRowsYet == [status |-> "success", created |-> 0, updated |-> 0, skipped |-> 0, errors |-> 0]

\* the rows a task has been through
RowsDone(result) == result.created + result.updated + result.skipped + result.errors

Ingesting(w, op) == pc[w] = "ingesting" /\ request[w].op = op

\* no ingestion task of this kind is queued or running
NotQueued(op) == \A v \in Workers : pc[v] = "ingesting" => request[v].op # op

\* ingest_all_data: two independent .delay() calls; each task goes to a
\* worker process of its own, and nothing orders the two
ingest_all_data(cw, lw, customer_file, loan_file) ==
    /\ cw # lw
    /\ pc[cw] = "idle" /\ request[cw] = NoValue
    /\ pc[lw] = "idle" /\ request[lw] = NoValue
    /\ NotQueued("ingest_customers") /\ NotQueued("ingest_loans")
    /\ request' = [request EXCEPT
                     ![cw] = [op |-> "ingest_customers", rows |-> customer_file],
                     ![lw] = [op |-> "ingest_loans", rows |-> loan_file]]
    /\ response' = [response EXCEPT ![cw] = NoRowsYet, ![lw] = NoRowsYet]
    /\ pc' = [pc EXCEPT ![cw] = "ingesting", ![lw] = "ingesting"]
    /\ UNCHANGED <<store, today, customer, credit_score, eligibility>>

\* ingest_loan_data.delay() alone (manage.py ingest_data --loans-only)
ingest_loans_only(w, loan_file) ==
    /\ pc[w] = "idle" /\ request[w] = NoValue
    /\ NotQueued("ingest_loans")
    /\ request' = [request EXCEPT ![w] = [op |-> "ingest_loans", rows |-> loan_file]]
    /\ response' = [response EXCEPT ![w] = NoRowsYet]
    /\ pc' = [pc EXCEPT ![w] = "ingesting"]
    /\ UNCHANGED <<store, today, customer, credit_score, eligibility>>

\* one iteration of the loop of ingest_customer_data: update_or_create on
\* the explicit customer_id overwrites salary, limit and debt; the id
\* sequence of the table is not advanced; after the last row the task returns
ingest_customer_data(w) ==
    /\ Ingesting(w, "ingest_customers")
    /\ LET k == RowsDone(response[w]) + 1
           row == request[w].rows[k]
       IN  /\ customers' = [c \in DOMAIN customers \cup {row.customer_id} |->
                              IF c = row.customer_id THEN row.customer ELSE customers[c]]
           /\ response' = [response EXCEPT ![w] =
                 IF row.customer_id \in DOMAIN customers
                 THEN [@ EXCEPT !.updated = @ + 1]
                 ELSE [@ EXCEPT !.created = @ + 1]]
           /\ pc' = [pc EXCEPT ![w] =
                 IF k = Len(request[w].rows) THEN "idle" ELSE "ingesting"]
    /\ UNCHANGED <<loans, loan_seq, customer_seq, today, request, customer,
                   credit_score, eligibility>>

\* one iteration of the loop of ingest_loan_data: a row whose customer is
\* not stored is skipped; otherwise update_or_create on the explicit loan_id,
\* which does not advance the id sequence of the table
ingest_loan_data(w) ==
    /\ Ingesting(w, "ingest_loans")
    /\ LET k == RowsDone(response[w]) + 1
           row == request[w].rows[k]
       IN  /\ IF row.loan.customer_id \notin DOMAIN customers
              THEN /\ loans' = loans
                   /\ response' = [response EXCEPT ![w] = [@ EXCEPT !.skipped = @ + 1]]
              ELSE /\ loans' = [i \in DOMAIN loans \cup {row.loan_id} |->
                                  IF i = row.loan_id THEN row.loan ELSE loans[i]]
                   /\ response' = [response EXCEPT ![w] =
                         IF row.loan_id \in DOMAIN loans
                         THEN [@ EXCEPT !.updated = @ + 1]
                         ELSE [@ EXCEPT !.created = @ + 1]]
           /\ pc' = [pc EXCEPT ![w] =
                 IF k = Len(request[w].rows) THEN "idle" ELSE "ingesting"]
    /\ UNCHANGED <<customers, loan_seq, customer_seq, today, request, customer,
                   credit_score, eligibility>>

IngestAll ==
    \E cw \in Workers, lw \in Workers, cf \in CustomerFiles, lf \in LoanFiles :
        ingest_all_data(cw, lw, cf, lf)
IngestLoansOnly == \E w \in Workers, lf \in LoanFiles : ingest_loans_only(w, lf)
IngestCustomerRow == \E w \in Workers : ingest_customer_data(w)
IngestLoanRow == \E w \in Workers : ingest_loan_data(w)
IngestBegin ==
    \E w \in Workers, c \in CustomerIds, a \in SysAmounts, r \in SysRates, t \in SysTenures :
        Begin(w, "create", c, a, r, t)

NextIngest ==
    \/ RegisterCustomer
    \/ IngestAll
    \/ IngestLoansOnly
    \/ IngestCustomerRow
    \/ IngestLoanRow
    \/ IngestBegin
    \/ CheckEligibility
    \/ CreateLoanRow
    \/ UpdateDebt

SpecIngest == Init /\ [][NextIngest]_vars

\* worker w's loan task skips a row as "customer not found"
SkipsRow(w) == Ingesting(w, "ingest_loans") /\ response'[w].skipped > response[w].skipped

\* the ids in the customer file of the ingest_all_data call
CustomerFileIds(v) == {request[v].rows[k].customer_id : k \in 1..Len(request[v].rows)}

\* C25 as claimed: under ingest_all_data the loan task never skips a row
\* whose customer is in the customer file: wherever both tasks of the call
\* exist and the loan task skips a row, that row's customer is not among the
\* rows of the customer file.
C25_CustomersBeforeLoans ==
    [][\A w \in Workers, v \in Workers :
         (/\ SkipsRow(w)
          /\ request[v] # NoValue
          /\ request[v].op = "ingest_customers") =>
            request[w].rows[RowsDone(response[w]) + 1].loan.customer_id
               \notin CustomerFileIds(v)]_vars

\* C29 as claimed: every approved origination returns a loan_id that
\* identified no loan before the call, loans ingested with explicit ids
\* included, and leaves every loan stored before it unchanged: the step of
\* Loan.objects.create of an approved origination yields a loan_id outside
\* the ids in the store and alters no stored loan.
C29_FreshLoanId ==
    [][\A w \in Workers :
         CreatesLoan(w) =>
            /\ "loan_id" \in DOMAIN response'[w]
            /\ response'[w].loan_id \notin DOMAIN loans
            /\ \A i \in DOMAIN loans : loans'[i] = loans[i]]_vars

\* C30 as claimed: every loan stored by an origination through the
\* create-loan API has loan_amount > 0 and tenure > 0; a request with
\* loan_amount = 0 leaves no stored loan.
C30_StoredLoansPositive ==
    \A i \in DOMAIN loans : loans[i].loan_amount > 0 /\ loans[i].tenure > 0

====
